---- MODULE Spec2Model ----
(***************************************************************************)
(* A model of the hypedmedia "rayban-metadata" file orchestrator:          *)
(* VideoProcessor (src/src/video-processor.ts, first class, lines 8-392),  *)
(* MetadataGenerator (src/unnamed/part_001), the preset table              *)
(* (src/unnamed/part_002) and FFmpegProcessor (src/rayban-cli.js).          *)
(*                                                                         *)
(* A path is a record [dir, name, ext]; name is a sequence of string       *)
(* tokens, so that template strings such as `${name}${suffix}${ext}` are   *)
(* modelled as concatenation and two paths are equal exactly when their    *)
(* texts are.  NoPath stands for an absent (undefined or empty) path.      *)
(* The disk is the function fs from the paths that exist to their entry.   *)
(* Every asynchronous call of VideoProcessor is an activation in ops; every *)
(* call it makes of an external tool or of the filesystem is appended to   *)
(* log.                                                                    *)
(***************************************************************************)
EXTENDS FiniteSets, Integers, Sequences, TLC

VARIABLES fs, ops, log, batch
vars == <<fs, ops, log, batch>>

\* ---------------------------------------------------------------- bounds
\* Date.now() and new Date() are drawn from 0..MaxClock.
MaxClock == 1
\* The directory listed by a batch holds at most MaxEntries entries.
MaxEntries == 4

Clock == 0..MaxClock

\* ------------------------------------------------------- optional values
Undefined == "undefined"
TrueV == "true"
FalseV == "false"
\* JavaScript truthiness of an optional string or boolean.
Truthy(v) == v \notin {Undefined, FalseV, ""}

\* ------------------------------------------------------------------ paths
NoPath == [dir |-> "", name |-> <<>>, ext |-> ""]
MkPath(d, n, e) == [dir |-> d, name |-> n, ext |-> e]

\* String.prototype.toLowerCase on the extensions of the model.
toLowerCase(s) ==
  CASE s = ".MP4" -> ".mp4"
    [] s = ".MOV" -> ".mov"
    [] s = ".Mkv" -> ".mkv"
    [] s = ".TXT" -> ".txt"
    [] OTHER -> s

VIDEO_EXTENSIONS == {".mp4", ".mov", ".avi", ".mkv", ".m4v", ".webm"}

\* A plausible bug: the extension is compared without lower-casing.
isVideoFileCaseSensitive(filePath) == filePath.ext \in VIDEO_EXTENSIONS

isVideoFile(filePath) == toLowerCase(filePath.ext) \in VIDEO_EXTENSIONS

\* A plausible bug: the two camera suffixes are exchanged.
cameraSuffixSwapped(frontCamera) == IF Truthy(frontCamera) THEN "_rayban" ELSE "_rayban_front"

cameraSuffix(frontCamera) == IF Truthy(frontCamera) THEN "_rayban_front" ELSE "_rayban"

\* A plausible bug: the default output path is the input path.
generateOutputPathInPlace(inputPath, frontCamera, additionalSuffix) == inputPath

\* The second definition of generateOutputPath (line 383) is the one in effect.
generateOutputPath(inputPath, frontCamera, additionalSuffix) ==
  MkPath(inputPath.dir,
         inputPath.name \o
           (IF Truthy(additionalSuffix)
              THEN <<cameraSuffix(frontCamera), "_", additionalSuffix>>
              ELSE <<cameraSuffix(frontCamera)>>),
         inputPath.ext)

\* A plausible bug: the transcoder is pointed at the input file itself.
generateTempPathInPlace(inputPath, suffix, timestamp) == inputPath

generateTempPath(inputPath, suffix, timestamp) ==
  MkPath(inputPath.dir,
         inputPath.name \o <<"_", suffix, "_", ToString(timestamp)>>,
         inputPath.ext)

\* -------------------------------------------------------- preset table
FRONT_CAMERA ==
  [make |-> "Meta", model |-> "Ray-Ban Stories", software |-> "Meta Camera v2.1.4",
   lensModel |-> "Ray-Ban Stories Front Camera 5.5mm f/2.0",
   cameraModelName |-> "Meta Ray-Ban Stories", deviceType |-> "Smart Glasses",
   captureMode |-> "Video", audioChannels |-> 2, microphone |-> "Beamforming Array",
   fieldOfView |-> "87deg", imageStabilization |-> "Electronic",
   gpsLatitude |-> "40.7128", gpsLongitude |-> "-74.0060", gpsAltitude |-> "10",
   gpsLatitudeRef |-> "N", gpsLongitudeRef |-> "W",
   defaultComment |-> "Recorded on Meta Ray-Ban Smart Glasses - First-person perspective"]

MAIN_CAMERA ==
  [make |-> "Meta", model |-> "Ray-Ban Meta", software |-> "Meta Camera v3.0.1",
   lensModel |-> "Ray-Ban Stories Wide Angle 12mm f/1.8",
   cameraModelName |-> "Meta Ray-Ban", deviceType |-> "Smart Glasses Camera",
   captureMode |-> "Hands-free Video", audioChannels |-> 4,
   microphone |-> "5-microphone array with noise cancellation",
   fieldOfView |-> "120deg ultra-wide", imageStabilization |-> "Optical + Electronic",
   gpsLatitude |-> "37.7749", gpsLongitude |-> "-122.4194", gpsAltitude |-> "5",
   gpsLatitudeRef |-> "N", gpsLongitudeRef |-> "W",
   defaultComment |-> "Captured with Meta Ray-Ban Smart Glasses - Hands-free recording"]

LOCATIONS ==
  [x \in {"new-york", "san-francisco", "london", "tokyo", "paris", "default"} |->
     CASE x = "new-york" -> [lat |-> "40.7128", lon |-> "-74.0060", alt |-> "10"]
       [] x = "san-francisco" -> [lat |-> "37.7749", lon |-> "-122.4194", alt |-> "5"]
       [] x = "london" -> [lat |-> "51.5074", lon |-> "-0.1278", alt |-> "15"]
       [] x = "tokyo" -> [lat |-> "35.6762", lon |-> "139.6503", alt |-> "20"]
       [] x = "paris" -> [lat |-> "48.8566", lon |-> "2.3522", alt |-> "35"]
       [] x = "default" -> [lat |-> "37.7749", lon |-> "-122.4194", alt |-> "5"]]

\* ---------------------------------------------------- MetadataGenerator
\* A configuration with every field absent.
EmptyConfig ==
  [frontCamera |-> Undefined, hasAudio |-> Undefined, customDate |-> <<>>,
   latitude |-> Undefined, longitude |-> Undefined, altitude |-> Undefined,
   locationName |-> Undefined, customComment |-> Undefined]

\* A date string is a sequence of tokens; <<>> is the absent (or empty) one.
\* new Date().toISOString() at clock value now.
toISOString(now) ==
  <<"2024", "-", "01", "-", "15", "T", "14", ":", "30", ":", "0" \o ToString(now),
    ".", "000", "Z">>

\* .replace('T', ' ').substring(0, 19): the first eleven tokens are the first
\* nineteen characters.
isoToDate(iso) ==
  [i \in 1..11 |-> IF iso[i] = "T" THEN " " ELSE iso[i]]

\* The properties every object literal inherits from Object.prototype; each
\* of them is a function or an object, hence truthy, and has no lat, lon or
\* alt of its own.
ObjectPrototypeKeys ==
  {"constructor", "toString", "toLocaleString", "valueOf", "hasOwnProperty",
   "isPrototypeOf", "propertyIsEnumerable", "__proto__"}

\* RAYBAN_PRESETS.LOCATIONS[locationName], lines 24-25: whether the property
\* read is truthy, and the lat, lon and alt of what was read.
locationFound(locationName) ==
  locationName \in DOMAIN LOCATIONS \cup ObjectPrototypeKeys
locationRead(locationName) ==
  IF locationName \in DOMAIN LOCATIONS THEN LOCATIONS[locationName]
  ELSE [lat |-> Undefined, lon |-> Undefined, alt |-> Undefined]

\* latitude && longitude, line 22.
hasCoordinates(latitude, longitude) == Truthy(latitude) /\ Truthy(longitude)

\* A plausible bug: the supplied altitude is dropped.
altitudeAlwaysDefault(altitude) == "5"

\* altitude || '5', line 23.
altitudeOrDefault(altitude) == IF Truthy(altitude) THEN altitude ELSE "5"

\* A plausible bug: audio is off unless asked for.
hasAudioDefaultFalse(config) ==
  IF config.hasAudio = Undefined THEN FalseV ELSE config.hasAudio

\* hasAudio = true in the destructuring, line 8.
hasAudioOf(config) ==
  IF config.hasAudio = Undefined THEN TrueV ELSE config.hasAudio

\* A plausible bug: the camera default is taken although a preset is named.
locationSkipsPreset(config, frontCamera) ==
  IF hasCoordinates(config.latitude, config.longitude)
    THEN [lat |-> config.latitude, lon |-> config.longitude,
          alt |-> altitudeOrDefault(config.altitude)]
  ELSE IF Truthy(frontCamera) THEN LOCATIONS["new-york"]
  ELSE LOCATIONS["san-francisco"]

\* Lines 21-30.
resolveLocation(config, frontCamera) ==
  IF hasCoordinates(config.latitude, config.longitude)
    THEN [lat |-> config.latitude, lon |-> config.longitude,
          alt |-> altitudeOrDefault(config.altitude)]
  ELSE IF Truthy(config.locationName) /\ locationFound(config.locationName)
    THEN locationRead(config.locationName)
  ELSE IF Truthy(frontCamera) THEN LOCATIONS["new-york"]
  ELSE LOCATIONS["san-francisco"]

\* A plausible bug: the reference letters follow the sign of the coordinate.
hemisphereRefsBySign(preset, location) ==
  [lat |-> IF SubSeq(location.lat, 1, 1) = "-" THEN "S" ELSE "N",
   lon |-> IF SubSeq(location.lon, 1, 1) = "-" THEN "W" ELSE "E"]

\* Lines 50-51: the reference letters are the preset's.
hemisphereRefs(preset, location) ==
  [lat |-> preset.gpsLatitudeRef, lon |-> preset.gpsLongitudeRef]

generateMetadata(config, now) ==
  LET frontCamera == IF config.frontCamera = Undefined THEN FalseV ELSE config.frontCamera
      hasAudio == hasAudioOf(config)
      preset == IF Truthy(frontCamera) THEN FRONT_CAMERA ELSE MAIN_CAMERA
      date == IF config.customDate # <<>> THEN config.customDate
              ELSE isoToDate(toISOString(now))
      location == resolveLocation(config, frontCamera)
  IN [make |-> preset.make, model |-> preset.model, software |-> preset.software,
      lensModel |-> preset.lensModel, createDate |-> date, modifyDate |-> date,
      cameraModelName |-> preset.cameraModelName, deviceType |-> preset.deviceType,
      captureMode |-> preset.captureMode,
      audioChannels |-> IF Truthy(hasAudio) THEN preset.audioChannels ELSE 0,
      microphone |-> IF Truthy(hasAudio) THEN preset.microphone ELSE "None",
      fieldOfView |-> preset.fieldOfView,
      imageStabilization |-> preset.imageStabilization,
      comment |-> IF Truthy(config.customComment) THEN config.customComment
                  ELSE preset.defaultComment,
      gpsLatitude |-> location.lat, gpsLongitude |-> location.lon,
      gpsAltitude |-> location.alt,
      gpsLatitudeRef |-> hemisphereRefs(preset, location).lat,
      gpsLongitudeRef |-> hemisphereRefs(preset, location).lon]

\* The tags a file carries; Undefined marks a tag the file does not have.
NoTags ==
  [Make |-> Undefined, Model |-> Undefined, Software |-> Undefined,
   LensModel |-> Undefined, CreateDate |-> <<>>, ModifyDate |-> <<>>,
   Comment |-> Undefined, GPSLatitude |-> Undefined, GPSLongitude |-> Undefined,
   GPSAltitude |-> Undefined, GPSLatitudeRef |-> Undefined,
   GPSLongitudeRef |-> Undefined]

\* A plausible bug: the lens model is not written.
writableTagsNoLens(metadata) ==
  [NoTags EXCEPT !.Make = metadata.make, !.Model = metadata.model,
                 !.Software = metadata.software]

writableTags(metadata) ==
  [Make |-> metadata.make, Model |-> metadata.model, Software |-> metadata.software,
   LensModel |-> metadata.lensModel, CreateDate |-> metadata.createDate,
   ModifyDate |-> metadata.modifyDate, Comment |-> metadata.comment,
   GPSLatitude |-> metadata.gpsLatitude, GPSLongitude |-> metadata.gpsLongitude,
   GPSAltitude |-> metadata.gpsAltitude, GPSLatitudeRef |-> metadata.gpsLatitudeRef,
   GPSLongitudeRef |-> metadata.gpsLongitudeRef]


\* ------------------------------------------------------------ filesystem
\* What a path holds: a regular file (its bytes and its embedded tags) or a
\* directory.
FileEntry(id, enc, tags) == [kind |-> "file", id |-> id, enc |-> enc, tags |-> tags]
DirEntry == [kind |-> "dir", id |-> 0, enc |-> "none", tags |-> NoTags]

\* The entries a listed directory may hold before the call.
Universe ==
  (MkPath("vids", <<"a">>, ".mp4") :> FileEntry(1, "orig", NoTags)) @@
  (MkPath("vids", <<"b">>, ".MOV") :> FileEntry(2, "orig", NoTags)) @@
  (MkPath("vids", <<"notes">>, ".txt") :> FileEntry(3, "orig", NoTags)) @@
  (MkPath("vids", <<"sub">>, ".mp4") :> DirEntry) @@
  (MkPath("vids", <<"rayban_", "a">>, ".mp4") :> FileEntry(4, "orig", NoTags))

Exists(p) == p \in DOMAIN fs
IsFile(p) == Exists(p) /\ fs[p].kind = "file"
Put(p, e) == [q \in DOMAIN fs \cup {p} |-> IF q = p THEN e ELSE fs[q]]
Remove(p) == [q \in DOMAIN fs \ {p} |-> fs[q]]

\* One call of an external tool or of the filesystem, as the log keeps it.
Effect(a, call, src, dst, ok) ==
  [op |-> a, call |-> call, src |-> src, dst |-> dst, ok |-> ok]

\* ------------------------------------------------------------ activations
Finished(o) == o.phase \in {"Done", "Failed", "Threw"}

NewAddMetadata(inputPath, outputPath, config, processVideo) ==
  [kind |-> "addMetadata", phase |-> "Validate", outcome |-> "pending",
   failedAt |-> "none", inputPath |-> inputPath, outputPath |-> outputPath,
   config |-> config, processVideo |-> processVideo, now |-> 0,
   finalOutputPath |-> NoPath, processingPath |-> NoPath,
   tempOutputPath |-> NoPath, inputPaths |-> <<>>,
   tempCreated |-> FALSE]

\* A plausible bug (the order of the superseded class, lines 476-483): the
\* metadata is written before the bytes are copied to the final output path.
AfterValidateWriteFirst(o) == IF o.processVideo THEN "Transcode" ELSE "WriteMetadata"

\* Lines 60-78: what follows the validation, the transcoding when it is
\* requested and the relocation otherwise.
AfterValidate(o) == IF o.processVideo THEN "Transcode" ELSE "Relocate"

\* A plausible bug: a caught error still reports success.
CaughtReportsTrue(o, at) ==
  [o EXCEPT !.phase = "Failed", !.outcome = "true", !.failedAt = at]

\* catch (error) { return false } of addMetadata, lines 111-114.
Caught(o, at) == [o EXCEPT !.phase = "Failed", !.outcome = "false", !.failedAt = at]

\* Lines 50-60: the extension check, the final output path, the metadata.
Validate(a) ==
  /\ ops[a].kind = "addMetadata" /\ ops[a].phase = "Validate"
  /\ \E now \in Clock :
       LET o == ops[a] IN
       ops' = [ops EXCEPT ![a] =
         IF ~isVideoFile(o.inputPath) THEN Caught(o, "Validate")
         ELSE [o EXCEPT
                 !.finalOutputPath =
                    IF o.outputPath # NoPath THEN o.outputPath
                    ELSE generateOutputPath(o.inputPath, o.config.frontCamera, Undefined),
                 !.now = now,
                 !.processingPath = o.inputPath,
                 !.phase = AfterValidate(o)]]
  /\ UNCHANGED <<fs, log, batch>>

\* FFmpegProcessor.processVideo(input, output): the probe (getVideoInfo), then
\* the ffmpeg run.  r is what happens: "probe_fail" (ffprobe fails, nothing is
\* written), "run_fail" (ffmpeg fails before it creates the output),
\* "run_fail_partial" (ffmpeg fails leaving an output file), "ok".
ProcessVideoResults(input) ==
  IF IsFile(input) THEN {"probe_fail", "run_fail", "run_fail_partial", "ok"}
  ELSE {"probe_fail"}

ProcessVideoFs(input, output, r) ==
  IF r \in {"ok", "run_fail_partial"}
    THEN Put(output, FileEntry(fs[input].id, IF r = "ok" THEN "x264" ELSE "partial", NoTags))
    ELSE fs

ProcessVideoLog(a, input, output, r) ==
  IF r = "probe_fail" THEN <<Effect(a, "ffprobe", input, NoPath, FALSE)>>
  ELSE <<Effect(a, "ffprobe", input, NoPath, TRUE),
         Effect(a, "ffmpeg", input, output, r = "ok")>>

\* Lines 63-75: transcode into a temporary path.
Transcode(a) ==
  /\ ops[a].kind = "addMetadata" /\ ops[a].phase = "Transcode"
  /\ LET o == ops[a] IN
     \E timestamp \in o.now..MaxClock, r \in ProcessVideoResults(o.inputPath) :
       LET tempOutputPath == generateTempPath(o.inputPath, "processed", timestamp) IN
       /\ fs' = ProcessVideoFs(o.inputPath, tempOutputPath, r)
       /\ log' = log \o ProcessVideoLog(a, o.inputPath, tempOutputPath, r)
       /\ ops' = [ops EXCEPT ![a] =
            IF r = "ok"
              THEN [o EXCEPT !.tempOutputPath = tempOutputPath,
                             !.tempCreated = TRUE,
                             !.processingPath = tempOutputPath,
                             !.phase = "Relocate"]
              ELSE Caught([o EXCEPT !.tempOutputPath = tempOutputPath,
                                    !.tempCreated = (r = "run_fail_partial")],
                          "Transcode")]
  /\ UNCHANGED batch

\* Line 78: if (finalOutputPath !== processingPath).
NeedsCopy(o) == o.finalOutputPath # o.processingPath

\* Lines 77-80: copy the bytes to the final output path if it differs.
Relocate(a) ==
  /\ ops[a].kind = "addMetadata" /\ ops[a].phase = "Relocate"
  /\ LET o == ops[a] IN
     IF NeedsCopy(o)
       THEN \E ok \in BOOLEAN :
              /\ ok => IsFile(o.processingPath) /\ (Exists(o.finalOutputPath) => IsFile(o.finalOutputPath))
              /\ fs' = IF ok THEN Put(o.finalOutputPath, fs[o.processingPath]) ELSE fs
              /\ log' = Append(log, Effect(a, "copyFile", o.processingPath,
                                           o.finalOutputPath, ok))
              /\ ops' = [ops EXCEPT ![a] =
                   IF ok THEN [o EXCEPT !.phase = "WriteMetadata"]
                   ELSE Caught(o, "Relocate")]
       ELSE /\ ops' = [ops EXCEPT ![a] = [o EXCEPT !.phase = "WriteMetadata"]]
            /\ UNCHANGED <<fs, log>>
  /\ UNCHANGED batch

\* Line 102: if (processVideo && processingPath !== inputPath).
NeedsCleanup(o) == o.processVideo /\ o.processingPath # o.inputPath

\* Lines 82-99: exiftool.write(finalOutputPath, writableTags).
WriteMetadata(a) ==
  /\ ops[a].kind = "addMetadata" /\ ops[a].phase = "WriteMetadata"
  /\ LET o == ops[a] IN
     \E ok \in BOOLEAN :
       /\ ok => IsFile(o.finalOutputPath)
       /\ fs' = IF ok
                  THEN Put(o.finalOutputPath,
                           [fs[o.finalOutputPath] EXCEPT
                              !.tags = writableTags(generateMetadata(o.config, o.now))])
                  ELSE fs
       /\ log' = Append(log, Effect(a, "exiftool.write", NoPath, o.finalOutputPath, ok))
       /\ ops' = [ops EXCEPT ![a] =
            IF ~ok THEN Caught(o, "WriteMetadata")
            ELSE IF NeedsCleanup(o) THEN [o EXCEPT !.phase = "Cleanup"]
            ELSE [o EXCEPT !.phase = "Done", !.outcome = "true"]]
  /\ UNCHANGED batch

\* A plausible bug: without the inner try/catch a failing unlink reaches the
\* outer catch.
CleanedUpUnguarded(o, ok) ==
  IF ok THEN [o EXCEPT !.phase = "Done", !.outcome = "true"] ELSE Caught(o, "Cleanup")

\* Lines 103-110: the unlink error is ignored, true is returned either way.
CleanedUp(o, ok) == [o EXCEPT !.phase = "Done", !.outcome = "true"]

\* Lines 101-110: best-effort removal of the temporary file.
Cleanup(a) ==
  /\ ops[a].kind = "addMetadata" /\ ops[a].phase = "Cleanup"
  /\ LET o == ops[a] IN
     \E ok \in BOOLEAN :
       /\ ok => IsFile(o.processingPath)
       /\ fs' = IF ok THEN Remove(o.processingPath) ELSE fs
       /\ log' = Append(log, Effect(a, "unlink", NoPath, o.processingPath, ok))
       /\ ops' = [ops EXCEPT ![a] = CleanedUp(o, ok)]
  /\ UNCHANGED batch


\* ------------------------------------------------ optimizeForRayBan
NewOptimize(inputPath, outputPath, config) ==
  [kind |-> "optimizeForRayBan", phase |-> "Optimize", outcome |-> "pending",
   failedAt |-> "none", inputPath |-> inputPath, outputPath |-> outputPath,
   config |-> config, processVideo |-> TRUE, now |-> 0,
   finalOutputPath |-> NoPath, processingPath |-> NoPath,
   tempOutputPath |-> NoPath, inputPaths |-> <<>>,
   tempCreated |-> FALSE]

\* A plausible bug: a rejection of the transcoder is swallowed and the
\* metadata write goes ahead.
succeededAlways(r) == TRUE

\* const success = await FFmpegProcessor...(...); if (success), lines 211-222
\* and 291-298: the write is reached only when the promise resolved.
succeeded(r) == r = "ok"

\* video-processor.ts lines 211-220: FFmpegProcessor.optimizeForRayBan is
\* processVideo with fixed options, written straight to the final output path.
Optimize(a) ==
  /\ ops[a].kind = "optimizeForRayBan" /\ ops[a].phase = "Optimize"
  /\ LET o == ops[a]
         finalOutputPath ==
           IF o.outputPath # NoPath THEN o.outputPath
           ELSE generateOutputPath(o.inputPath, o.config.frontCamera, "optimized")
     IN
     \E now \in Clock, r \in ProcessVideoResults(o.inputPath) :
       /\ fs' = ProcessVideoFs(o.inputPath, finalOutputPath, r)
       /\ log' = log \o ProcessVideoLog(a, o.inputPath, finalOutputPath, r)
       /\ ops' = [ops EXCEPT ![a] =
            IF succeeded(r)
              THEN [o EXCEPT !.finalOutputPath = finalOutputPath, !.now = now,
                             !.phase = "OptimizeWrite"]
              ELSE Caught([o EXCEPT !.finalOutputPath = finalOutputPath], "Optimize")]
  /\ UNCHANGED batch

\* video-processor.ts lines 222-243: the metadata write after the optimization.
OptimizeWrite(a) ==
  /\ ops[a].kind = "optimizeForRayBan" /\ ops[a].phase = "OptimizeWrite"
  /\ LET o == ops[a] IN
     \E ok \in BOOLEAN :
       /\ ok => IsFile(o.finalOutputPath)
       /\ fs' = IF ok
                  THEN Put(o.finalOutputPath,
                           [fs[o.finalOutputPath] EXCEPT
                              !.tags = writableTags(generateMetadata(o.config, o.now))])
                  ELSE fs
       /\ log' = Append(log, Effect(a, "exiftool.write", NoPath, o.finalOutputPath, ok))
       /\ ops' = [ops EXCEPT ![a] =
            IF ok THEN [o EXCEPT !.phase = "Done", !.outcome = "true"]
            ELSE Caught(o, "OptimizeWrite")]
  /\ UNCHANGED batch

\* ------------------------------------------------------- mergeVideos
NewMerge(inputPaths, outputPath, config) ==
  [kind |-> "mergeVideos", phase |-> "Merge", outcome |-> "pending",
   failedAt |-> "none", inputPath |-> NoPath, outputPath |-> outputPath,
   config |-> config, processVideo |-> FALSE, now |-> 0,
   finalOutputPath |-> outputPath, processingPath |-> NoPath,
   tempOutputPath |-> NoPath, inputPaths |-> inputPaths,
   tempCreated |-> FALSE]

\* FFmpegProcessor.mergeVideos, rayban-cli.js lines 327-370, as called at
\* video-processor.ts line 291: fewer than two inputs throw before ffmpeg is
\* built; otherwise one ffmpeg run concatenates the inputs into outputPath.
\* A plausible bug: a single input is let through to ffmpeg.
insufficientInputsOnlyEmpty(inputPaths) == Len(inputPaths) < 1

\* rayban-cli.js line 333: inputPaths.length < 2.
insufficientInputs(inputPaths) == Len(inputPaths) < 2

Merge(a) ==
  /\ ops[a].kind = "mergeVideos" /\ ops[a].phase = "Merge"
  /\ LET o == ops[a] IN
     IF insufficientInputs(o.inputPaths)
       THEN /\ ops' = [ops EXCEPT ![a] = Caught(o, "Merge")]
            /\ UNCHANGED <<fs, log>>
       ELSE \E now \in Clock, ok \in BOOLEAN :
              /\ ok => \A i \in 1..Len(o.inputPaths) : IsFile(o.inputPaths[i])
              /\ fs' = IF ok
                         THEN Put(o.outputPath,
                                  FileEntry(fs[o.inputPaths[1]].id, "merged", NoTags))
                         ELSE fs
              /\ log' = Append(log, Effect(a, "ffmpeg", o.inputPaths[1], o.outputPath, ok))
              /\ ops' = [ops EXCEPT ![a] =
                   IF succeeded(IF ok THEN "ok" ELSE "run_fail")
                     THEN [o EXCEPT !.now = now, !.phase = "MergeWrite"]
                     ELSE Caught(o, "Merge")]
  /\ UNCHANGED batch

\* video-processor.ts lines 298-319: the metadata write after the merge.
MergeWrite(a) ==
  /\ ops[a].kind = "mergeVideos" /\ ops[a].phase = "MergeWrite"
  /\ LET o == ops[a]
         metadata == generateMetadata(o.config, o.now)
         tags == [writableTags(metadata) EXCEPT
                    !.Comment = metadata.comment \o " - Merged from " \o
                                ToString(Len(o.inputPaths)) \o " clips"]
     IN
     \E ok \in BOOLEAN :
       /\ ok => IsFile(o.outputPath)
       /\ fs' = IF ok THEN Put(o.outputPath, [fs[o.outputPath] EXCEPT !.tags = tags])
                ELSE fs
       /\ log' = Append(log, Effect(a, "exiftool.write", NoPath, o.outputPath, ok))
       /\ ops' = [ops EXCEPT ![a] =
            IF ok THEN [o EXCEPT !.phase = "Done", !.outcome = "true"]
            ELSE Caught(o, "MergeWrite")]
  /\ UNCHANGED batch

\* --------------------------------------- createThumbnail, extractFrames
\* inputPath.replace(path.extname(inputPath), '_thumb.jpg'), line 260: the
\* first occurrence of the extension is replaced; an empty extension matches
\* at the start of the string.
thumbnailPath(inputPath) ==
  IF inputPath.ext = ""
    THEN MkPath("_thumb.jpg" \o inputPath.dir, inputPath.name, "")
    ELSE MkPath(inputPath.dir, inputPath.name \o <<"_thumb">>, ".jpg")

NewThumbnail(inputPath, outputPath) ==
  [kind |-> "createThumbnail", phase |-> "Thumbnail", outcome |-> "pending",
   failedAt |-> "none", inputPath |-> inputPath, outputPath |-> outputPath,
   config |-> EmptyConfig, processVideo |-> FALSE, now |-> 0,
   finalOutputPath |-> IF outputPath # NoPath THEN outputPath
                       ELSE thumbnailPath(inputPath),
   processingPath |-> NoPath, tempOutputPath |-> NoPath,
   inputPaths |-> <<>>,
   tempCreated |-> FALSE]

\* No try/catch in createThumbnail and extractFrames (video-processor.ts lines
\* 253-278): a rejection of the FFmpegProcessor promise is the caller's.
Rejected(o, at) == [o EXCEPT !.phase = "Threw", !.outcome = "threw", !.failedAt = at]

\* video-processor.ts lines 253-263 with rayban-cli.js lines 306-322.
Thumbnail(a) ==
  /\ ops[a].kind = "createThumbnail" /\ ops[a].phase = "Thumbnail"
  /\ LET o == ops[a] IN
     \E ok \in BOOLEAN :
       /\ ok => IsFile(o.inputPath)
       /\ fs' = IF ok THEN Put(o.finalOutputPath, FileEntry(fs[o.inputPath].id, "jpg", NoTags))
                ELSE fs
       /\ log' = Append(log, Effect(a, "ffmpeg", o.inputPath, o.finalOutputPath, ok))
       /\ ops' = [ops EXCEPT ![a] =
            IF ok THEN [o EXCEPT !.phase = "Done", !.outcome = "true"]
            ELSE Rejected(o, "Thumbnail")]
  /\ UNCHANGED batch

\* ------------------------------------------- checkFFmpegAvailability
NewAvailability ==
  [kind |-> "checkFFmpegAvailability", phase |-> "Formats", outcome |-> "pending",
   failedAt |-> "none", inputPath |-> NoPath, outputPath |-> NoPath,
   config |-> EmptyConfig, processVideo |-> FALSE, now |-> 0,
   finalOutputPath |-> NoPath, processingPath |-> NoPath,
   tempOutputPath |-> NoPath, inputPaths |-> <<>>,
   tempCreated |-> FALSE]

\* video-processor.ts lines 371-373 with rayban-cli.js lines 430-437: the
\* promise resolves to whether ffmpeg listed its formats, and never rejects.
Formats(a) ==
  /\ ops[a].kind = "checkFFmpegAvailability" /\ ops[a].phase = "Formats"
  /\ \E ok \in BOOLEAN :
       /\ log' = Append(log, Effect(a, "getAvailableFormats", NoPath, NoPath, ok))
       /\ ops' = [ops EXCEPT ![a].phase = "Done",
                             ![a].outcome = IF ok THEN "true" ELSE "false"]
  /\ UNCHANGED <<fs, batch>>

\* `${basename}_frames` in the input's directory, lines 274-275.
framesDir(inputPath) == MkPath(inputPath.dir, inputPath.name \o <<"_frames">>, "")

NewFrames(inputPath, outputDir) ==
  [kind |-> "extractFrames", phase |-> "Mkdir", outcome |-> "pending",
   failedAt |-> "none", inputPath |-> inputPath, outputPath |-> outputDir,
   config |-> EmptyConfig, processVideo |-> FALSE, now |-> 0,
   finalOutputPath |-> IF outputDir # NoPath THEN outputDir ELSE framesDir(inputPath),
   processingPath |-> NoPath, tempOutputPath |-> NoPath,
   inputPaths |-> <<>>,
   tempCreated |-> FALSE]

\* rayban-cli.js line 275: fs.mkdir(outputDir, { recursive: true }).
Mkdir(a) ==
  /\ ops[a].kind = "extractFrames" /\ ops[a].phase = "Mkdir"
  /\ LET o == ops[a] IN
     \E ok \in BOOLEAN :
       /\ ok => ~IsFile(o.finalOutputPath)
       /\ fs' = IF ok THEN Put(o.finalOutputPath, DirEntry) ELSE fs
       /\ log' = Append(log, Effect(a, "mkdir", NoPath, o.finalOutputPath, ok))
       /\ ops' = [ops EXCEPT ![a] =
            IF ok THEN [o EXCEPT !.phase = "Extract"] ELSE Rejected(o, "Mkdir")]
  /\ UNCHANGED batch

\* rayban-cli.js lines 277-300: the ffmpeg run, then the listing of the frames.
Extract(a) ==
  /\ ops[a].kind = "extractFrames" /\ ops[a].phase = "Extract"
  /\ LET o == ops[a] IN
     \E r \in {"ffmpeg_fail", "readdir_fail", "ok"} :
       /\ r # "ffmpeg_fail" => IsFile(o.inputPath)
       /\ log' = log \o
            (IF r = "ffmpeg_fail"
               THEN <<Effect(a, "ffmpeg", o.inputPath, o.finalOutputPath, FALSE)>>
               ELSE <<Effect(a, "ffmpeg", o.inputPath, o.finalOutputPath, TRUE),
                      Effect(a, "readdir", o.finalOutputPath, NoPath, r = "ok")>>)
       /\ ops' = [ops EXCEPT ![a] =
            IF r = "ok" THEN [o EXCEPT !.phase = "Done", !.outcome = "frames"]
            ELSE Rejected(o, "Extract")]
  /\ UNCHANGED <<fs, batch>>


\* ------------------------------------------------------ batchProcess
\* The sequences that hold every element of S exactly once: the orders in
\* which readdir may list a directory.
RECURSIVE Orders(_)
Orders(S) ==
  IF S = {} THEN {<<>>}
  ELSE UNION {{<<x>> \o t : t \in Orders(S \ {x})} : x \in S}

\* fs.readdir(directory), line 21.
readdir(directory) == {p \in DOMAIN fs : p.dir = directory}

\* A plausible bug: the stat.isFile() test is left out.
getVideoFilesNoStat(files) == {p \in files : isVideoFile(p)}

\* Lines 24-36: the entries that are regular files with a video extension.
getVideoFiles(files) == {p \in files : fs[p].kind = "file" /\ isVideoFile(p)}

VideoFile(p) == [path |-> p, name |-> p.name, extension |-> p.ext]

IdleBatch ==
  [pc |-> "idle", directory |-> "", outputDir |-> "", config |-> EmptyConfig,
   files |-> {}, videoFiles |-> <<>>, idx |-> 1, cur |-> 0,
   results |-> [success |-> 0, failed |-> 0, total |-> 0]]

\* Line 140: getVideoFiles(directory); a failing readdir or stat rejects the
\* whole call before the loop.  Line 141: the counters.
BatchEnumerate ==
  /\ batch.pc = "enumerate"
  /\ \E ok \in BOOLEAN :
       IF ok
         THEN \E videoFiles \in Orders(getVideoFiles(readdir(batch.directory))) :
                /\ batch' = [batch EXCEPT
                     !.pc = "loop",
                     !.files = readdir(batch.directory),
                     !.videoFiles = [i \in 1..Len(videoFiles) |-> VideoFile(videoFiles[i])],
                     !.results = [success |-> 0, failed |-> 0, total |-> Len(videoFiles)]]
                /\ log' = Append(log, Effect(0, "readdir", MkPath(batch.directory, <<>>, ""),
                                             NoPath, TRUE))
         ELSE /\ batch' = [batch EXCEPT !.pc = "threw"]
              /\ log' = Append(log, Effect(0, "readdir", MkPath(batch.directory, <<>>, ""),
                                           NoPath, FALSE))
  /\ UNCHANGED <<fs, ops>>

\* Lines 145-147: path.join(outputDir, `rayban_${videoFile.name}`) or undefined.
batchOutputPath(outputDir, videoFile) ==
  IF outputDir # ""
    THEN MkPath(outputDir, <<"rayban_">> \o videoFile.name, videoFile.extension)
    ELSE NoPath

\* A plausible bug: the batch asks for transcoding.
processVideoRequested == TRUE

\* processVideo: boolean = false, line 44: the value of the parameter the
\* call of line 149 leaves out.
processVideoDefault == FALSE

\* Line 149, the call: addMetadata(videoFile.path, outputPath, config), with
\* processVideo left at its default.
BatchCall ==
  /\ batch.pc = "loop" /\ batch.idx <= Len(batch.videoFiles)
  /\ LET videoFile == batch.videoFiles[batch.idx] IN
     /\ ops' = Append(ops, NewAddMetadata(videoFile.path,
                                          batchOutputPath(batch.outputDir, videoFile),
                                          batch.config, processVideoDefault))
     /\ batch' = [batch EXCEPT !.pc = "await", !.cur = Len(ops) + 1]
  /\ UNCHANGED <<fs, log>>

\* A plausible bug: the call is not awaited, the loop does not wait for it.
AwaitedNot(o) == TRUE

\* Line 149, the await: the loop goes on once the promise is settled.
Awaited(o) == Finished(o)

\* A plausible bug: a failure is counted by the else and by the catch.
CountedFailureTwice(results, outcome) ==
  IF outcome = "true" THEN [results EXCEPT !.success = @ + 1]
  ELSE [results EXCEPT !.failed = @ + 2]

\* A plausible bug: a failure is not counted.
CountedDropFailure(results, outcome) ==
  IF outcome = "true" THEN [results EXCEPT !.success = @ + 1] ELSE results

\* Lines 151-161: success++ on true, failed++ on false and in the catch.
Counted(results, outcome) ==
  IF outcome = "true" THEN [results EXCEPT !.success = @ + 1]
  ELSE [results EXCEPT !.failed = @ + 1]

BatchAwait ==
  /\ batch.pc = "await" /\ Awaited(ops[batch.cur])
  /\ batch' = [batch EXCEPT !.pc = "loop", !.idx = @ + 1,
                            !.results = Counted(@, ops[batch.cur].outcome)]
  /\ UNCHANGED <<fs, ops, log>>

\* Line 164: return results.
BatchReturn ==
  /\ batch.pc = "loop" /\ batch.idx > Len(batch.videoFiles)
  /\ batch' = [batch EXCEPT !.pc = "returned"]
  /\ UNCHANGED <<fs, ops, log>>

\* ------------------------------------------------------------- the calls
\* The configurations the calls are made with.
Configs == {EmptyConfig, [EmptyConfig EXCEPT !.frontCamera = TrueV]}

UniversePaths == DOMAIN Universe
OtherPath == MkPath("out", <<"o">>, ".mp4")

\* The explicit output paths tried for an input: none, the input itself, a
\* path elsewhere, and a path of the shape of the temporary path.
OutputPaths(inputPath) ==
  {NoPath, inputPath, OtherPath, generateTempPath(inputPath, "processed", 0)}

NoCallYet == ops = <<>> /\ batch.pc = "idle"

\* addMetadata, or processAndAddMetadata (lines 192-200) when processVideo.
CallAddMetadata ==
  /\ NoCallYet
  /\ \E inputPath \in UniversePaths, config \in Configs, processVideo \in BOOLEAN :
       \E outputPath \in OutputPaths(inputPath) :
         ops' = <<NewAddMetadata(inputPath, outputPath, config, processVideo)>>
  /\ UNCHANGED <<fs, log, batch>>

CallOptimize ==
  /\ NoCallYet
  /\ \E inputPath \in UniversePaths, config \in Configs :
       \E outputPath \in {NoPath, inputPath, OtherPath} :
         ops' = <<NewOptimize(inputPath, outputPath, config)>>
  /\ UNCHANGED <<fs, log, batch>>

CallMerge ==
  /\ NoCallYet
  /\ \E inputPaths \in {<<>>, <<MkPath("vids", <<"a">>, ".mp4")>>,
                        <<MkPath("vids", <<"a">>, ".mp4"), MkPath("vids", <<"b">>, ".MOV")>>},
        config \in Configs :
       ops' = <<NewMerge(inputPaths, OtherPath, config)>>
  /\ UNCHANGED <<fs, log, batch>>

CallThumbnail ==
  /\ NoCallYet
  /\ \E inputPath \in UniversePaths, outputPath \in {NoPath, OtherPath} :
       ops' = <<NewThumbnail(inputPath, outputPath)>>
  /\ UNCHANGED <<fs, log, batch>>

\* The check-ffmpeg command is the one caller of the probe.
CallCheckFFmpegAvailability ==
  /\ NoCallYet
  /\ ops' = <<NewAvailability>>
  /\ UNCHANGED <<fs, log, batch>>

CallFrames ==
  /\ NoCallYet
  /\ \E inputPath \in UniversePaths, outputDir \in {NoPath, MkPath("out", <<>>, "")} :
       ops' = <<NewFrames(inputPath, outputDir)>>
  /\ UNCHANGED <<fs, log, batch>>

CallBatchProcess ==
  /\ NoCallYet
  /\ \E directory \in {"vids"}, outputDir \in {"", "vids", "out"}, config \in Configs :
       batch' = [IdleBatch EXCEPT !.pc = "enumerate", !.directory = directory,
                                  !.outputDir = outputDir, !.config = config]
  /\ UNCHANGED <<fs, ops, log>>

\* ------------------------------------------------------ specification
\* The disk before the call: any MaxEntries or fewer entries of the universe.
Init ==
  /\ \E S \in SUBSET UniversePaths :
       /\ Cardinality(S) <= MaxEntries
       /\ fs = [p \in S |-> Universe[p]]
  /\ ops = <<>>
  /\ log = <<>>
  /\ batch = IdleBatch

Next ==
  \/ CallAddMetadata
  \/ CallOptimize
  \/ CallMerge
  \/ CallThumbnail
  \/ CallFrames
  \/ CallBatchProcess
  \/ CallCheckFFmpegAvailability
  \/ BatchEnumerate
  \/ BatchCall
  \/ BatchAwait
  \/ BatchReturn
  \/ \E a \in DOMAIN ops : Validate(a)
  \/ \E a \in DOMAIN ops : Transcode(a)
  \/ \E a \in DOMAIN ops : Relocate(a)
  \/ \E a \in DOMAIN ops : WriteMetadata(a)
  \/ \E a \in DOMAIN ops : Cleanup(a)
  \/ \E a \in DOMAIN ops : Optimize(a)
  \/ \E a \in DOMAIN ops : OptimizeWrite(a)
  \/ \E a \in DOMAIN ops : Merge(a)
  \/ \E a \in DOMAIN ops : MergeWrite(a)
  \/ \E a \in DOMAIN ops : Thumbnail(a)
  \/ \E a \in DOMAIN ops : Mkdir(a)
  \/ \E a \in DOMAIN ops : Extract(a)
  \/ \E a \in DOMAIN ops : Formats(a)

Spec == Init /\ [][Next]_vars



\* ===================================================== verifyMetadata
\* String.prototype.includes: sub occurs in s as a run of characters.
includes(s, sub) ==
  \E i \in 1..(Len(s) - Len(sub) + 1) : SubSeq(s, i, i + Len(sub) - 1) = sub

\* A plausible bug: the lens model is not among the required tags.
requiredTagsNoLens == <<"Make", "Model", "Software">>

requiredTags == <<"Make", "Model", "Software", "LensModel">>

\* A plausible bug: only the 'Ray-Ban' marker is accepted.
tagCallbackRayBanOnly(v) ==
  IF v = Undefined THEN "throw"
  ELSE IF Truthy(v) /\ includes(v, "Ray-Ban") THEN "true"
  ELSE "false"

\* The callback of every, lines 172-176, on the value v of one tag:
\* (v && v.includes('Ray-Ban')) || v.includes('Meta').  When v is undefined
\* the left operand is undefined and the right one calls includes of
\* undefined, which throws a TypeError.
tagCallback(v) ==
  IF v = Undefined THEN "throw"
  ELSE IF Truthy(v) /\ includes(v, "Ray-Ban") THEN "true"
  ELSE IF includes(v, "Meta") THEN "true"
  ELSE "false"

\* Array.prototype.every from index i on: it stops at the first tag whose
\* callback is not true, with false or with the callback's exception.
RECURSIVE every(_, _)
every(tags, i) ==
  IF i > Len(requiredTags) THEN "true"
  ELSE LET r == tagCallback(tags[requiredTags[i]]) IN
       IF r = "true" THEN every(tags, i + 1) ELSE r

NewVerify(filePath) ==
  [kind |-> "verifyMetadata", phase |-> "Read", outcome |-> "pending",
   failedAt |-> "none", inputPath |-> filePath, outputPath |-> NoPath,
   config |-> EmptyConfig, processVideo |-> FALSE, now |-> 0,
   finalOutputPath |-> NoPath, processingPath |-> NoPath,
   tempOutputPath |-> NoPath, inputPaths |-> <<>>,
   tempCreated |-> FALSE]

\* A plausible bug: the catch lets the error through.
verifyCatchRethrows(o, at) == Rejected(o, at)

\* catch { return false }, lines 177-179.
verifyCatch(o, at) == Caught(o, at)

\* verifyMetadata, lines 167-180: exiftool.read, which rejects for a path
\* that does not exist and may reject for any other, then every.
Verify(a) ==
  /\ ops[a].kind = "verifyMetadata" /\ ops[a].phase = "Read"
  /\ LET o == ops[a] IN
     \E ok \in BOOLEAN :
       /\ ok => Exists(o.inputPath)
       /\ log' = Append(log, Effect(a, "exiftool.read", o.inputPath, NoPath, ok))
       /\ ops' = [ops EXCEPT ![a] =
            IF ~ok THEN verifyCatch(o, "exiftool.read")
            ELSE LET r == every(fs[o.inputPath].tags, 1) IN
                 IF r = "throw" THEN verifyCatch(o, "every")
                 ELSE [o EXCEPT !.phase = "Done", !.outcome = r]]
  /\ UNCHANGED <<fs, batch>>

\* The file verifyMetadata is asked about.
VerifiedPath == MkPath("vids", <<"a">>, ".mp4")

\* The values a required tag of that file may have before the call: absent,
\* empty, a foreign maker, and texts with one or both of the markers.
TagValues ==
  {Undefined, "", "Apple", "Meta", "Ray-Ban Stories", "Meta Ray-Ban Stories"}

CallVerify ==
  /\ NoCallYet
  /\ ops' = <<NewVerify(VerifiedPath)>>
  /\ UNCHANGED <<fs, log, batch>>

\* The disk before the call: the file with any required tags, a directory in
\* its place, or nothing.
InitVerify ==
  /\ \/ \E mk \in TagValues, md \in TagValues, sw \in TagValues, lm \in TagValues :
          fs = (VerifiedPath :>
                  FileEntry(1, "orig",
                            [NoTags EXCEPT !.Make = mk, !.Model = md,
                                           !.Software = sw, !.LensModel = lm]))
     \/ fs = (VerifiedPath :> DirEntry)
     \/ fs = [p \in {} |-> DirEntry]
  /\ ops = <<>>
  /\ log = <<>>
  /\ batch = IdleBatch

NextVerify ==
  \/ CallVerify
  \/ \E a \in DOMAIN ops : Verify(a)

SpecVerify == InitVerify /\ [][NextVerify]_vars



\* =================================================== generateMetadata
\* The configurations generateMetadata is called with: each field absent,
\* empty or given; the location name absent, empty, each key of the table, a
\* name the table does not have, and a name every object has.
CustomDate == <<"2023", ":", "06", ":", "01", " ", "10", ":", "00", ":", "00">>
LocationNames ==
  {Undefined, "", "new-york", "san-francisco", "london", "tokyo", "paris",
   "default", "atlantis", "constructor"}
MetaConfigs ==
  [frontCamera : {Undefined, TrueV, FalseV},
   hasAudio : {Undefined, TrueV, FalseV},
   customDate : {<<>>, CustomDate},
   latitude : {Undefined, "", "48.8584", "-33.8688"},
   longitude : {Undefined, "", "2.2945", "-70.6483"},
   altitude : {Undefined, "", "330"},
   locationName : LocationNames,
   customComment : {Undefined, "My clip"}]

\* A call of generateMetadata(config) that has not run yet.
InitMeta ==
  /\ \E config \in MetaConfigs :
       ops = <<[kind |-> "generateMetadata", phase |-> "Call", config |-> config]>>
  /\ fs = [p \in {} |-> DirEntry]
  /\ log = <<>>
  /\ batch = IdleBatch

\* The call runs to its return at the time now of new Date().
GenerateMetadata(a) ==
  /\ ops[a].kind = "generateMetadata" /\ ops[a].phase = "Call"
  /\ \E now \in Clock :
       ops' = [ops EXCEPT ![a] =
                 [kind |-> "generateMetadata", phase |-> "Done",
                  config |-> ops[a].config, now |-> now,
                  metadata |-> generateMetadata(ops[a].config, now)]]
  /\ UNCHANGED <<fs, log, batch>>

NextMeta == \E a \in DOMAIN ops : GenerateMetadata(a)

SpecMeta == InitMeta /\ [][NextMeta]_vars



\* ============================================ FFmpegProcessor.processVideo
\* The number of progress events of one ffmpeg run.
MaxProgress == 2

\* An object of optional properties is a function from the keys it has to
\* their values; a value is <<>> for undefined and <<v>> for v, so that a
\* key that is absent and a key whose value is undefined are told apart, as
\* the object spread tells them apart.  A number is written in decimal.
Get(obj, key) == IF key \in DOMAIN obj THEN obj[key] ELSE <<>>
truthyString(t) == t # <<>> /\ t[1] # ""
truthyNumber(t) == t # <<>> /\ t[1] # "0"

QUALITY_PRESETS ==
  [q \in {"low", "medium", "high", "ultra"} |->
     CASE q = "low" -> [crf |-> 28, preset |-> "fast"]
       [] q = "medium" -> [crf |-> 23, preset |-> "medium"]
       [] q = "high" -> [crf |-> 18, preset |-> "slow"]
       [] q = "ultra" -> [crf |-> 15, preset |-> "veryslow"]]

STORIES ==
  [k \in {"resolution", "fps", "bitrate", "format"} |->
     CASE k = "resolution" -> <<"1184x1184">>
       [] k = "fps" -> <<"30">>
       [] k = "bitrate" -> <<"4000k">>
       [] k = "format" -> <<"mp4">>]

META ==
  [k \in {"resolution", "fps", "bitrate", "format"} |->
     CASE k = "resolution" -> <<"1920x1080">>
       [] k = "fps" -> <<"60">>
       [] k = "bitrate" -> <<"8000k">>
       [] k = "format" -> <<"mp4">>]

\* { ...raybanPreset, ...options }, lines 167-170: every key options has,
\* whatever its value, replaces the profile's.
spread(raybanPreset, options) ==
  [k \in DOMAIN raybanPreset \cup DOMAIN options |->
     IF k \in DOMAIN options THEN options[k] ELSE raybanPreset[k]]

\* Lines 162-194: the arguments the ffmpeg command is built with; <<>> for
\* a setter that is not called.
buildCommand(options, config) ==
  LET raybanPreset == IF Truthy(config.frontCamera) THEN STORIES ELSE META
      finalOptions == spread(raybanPreset, options)
      quality == IF truthyString(Get(finalOptions, "quality"))
                   THEN Get(finalOptions, "quality")[1] ELSE "medium"
      qualityPreset == QUALITY_PRESETS[quality]
  IN [crf |-> qualityPreset.crf,
      preset |-> IF truthyString(Get(finalOptions, "preset"))
                   THEN Get(finalOptions, "preset")[1] ELSE qualityPreset.preset,
      size |-> IF truthyString(Get(finalOptions, "resolution"))
                 THEN Get(finalOptions, "resolution") ELSE <<>>,
      fps |-> IF truthyNumber(Get(finalOptions, "fps"))
                THEN Get(finalOptions, "fps") ELSE <<>>,
      videoBitrate |-> IF truthyString(Get(finalOptions, "bitrate"))
                         THEN Get(finalOptions, "bitrate") ELSE <<>>,
      audioChannels |-> IF config.hasAudio # FalseV
                          THEN <<IF Truthy(config.frontCamera) THEN 2 ELSE 4>>
                          ELSE <<>>]

\* A timemark HH:MM:SS as ffmpeg reports it, <<>> when the event has none.
\* timeToSeconds, lines 422-425.
timeToSeconds(timeStr) == timeStr[1] * 3600 + timeStr[2] * 60 + timeStr[3]

\* A plausible bug: the percentage is passed on as computed.
clampNot(num, den) == <<num, den>>

\* Math.min(percent, 100), line 225, on the fraction num / den.  A division
\* by zero is Infinity, clamped to 100, or NaN (0 / 0), which Math.min passes
\* on; NaN is written <<0, 0>>.
clamp(num, den) ==
  IF den = 0 THEN (IF num = 0 THEN <<0, 0>> ELSE <<100, 1>>)
  ELSE IF num > 100 * den THEN <<100, 1>> ELSE <<num, den>>

\* Lines 223-225: the percentage passed to progressCallback, as a fraction.
progressPercent(timemark, duration) ==
  clamp((IF timemark # <<>> THEN timeToSeconds(timemark) ELSE 0) * 100, duration)

\* A plausible bug: the callback is registered whatever the duration.
registersAlways(hasCallback, duration) == hasCallback

\* progressCallback && videoInfo.duration > 0, line 222.
registers(hasCallback, duration) == hasCallback /\ duration > 0

\* The options, configurations, probed durations (seconds) and timemarks
\* processVideo is run with.
OptionKeys == {"quality", "resolution", "fps", "bitrate", "preset"}
OptionValues(k) ==
  CASE k = "quality" -> {<<>>, <<"high">>}
    [] k = "resolution" -> {<<>>, <<"1280x720">>}
    [] k = "fps" -> {<<>>, <<"24">>}
    [] k = "bitrate" -> {<<>>, <<"2000k">>}
    [] k = "preset" -> {<<>>, <<"ultrafast">>}
OptionObjects ==
  UNION {{o \in [K -> {<<>>, <<"24">>, <<"high">>, <<"1280x720">>, <<"2000k">>, <<"ultrafast">>}] :
            \A k \in K : o[k] \in OptionValues(k)} : K \in SUBSET OptionKeys}
TranscodeConfigs ==
  {[EmptyConfig EXCEPT !.frontCamera = f, !.hasAudio = h] :
     f \in {Undefined, TrueV, FalseV}, h \in {Undefined, FalseV}}
Durations == {0, 10}
Timemarks == {<<>>, <<0, 0, 5>>, <<0, 0, 10>>, <<0, 1, 0>>}

\* A call processVideo(inputPath, outputPath, options, config, callback?)
\* that has not run yet.
InitTranscode ==
  /\ \E options \in OptionObjects, config \in TranscodeConfigs, hasCallback \in BOOLEAN :
       ops = <<[kind |-> "processVideo", phase |-> "Probe", outcome |-> "pending",
                options |-> options, config |-> config, hasCallback |-> hasCallback,
                duration |-> 0, registered |-> FALSE, command |-> <<>>,
                reported |-> <<>>]>>
  /\ fs = [p \in {} |-> DirEntry]
  /\ log = <<>>
  /\ batch = IdleBatch

\* Line 159: getVideoInfo; a failing probe is rethrown by the catch of
\* lines 242-244.
Probe(a) ==
  /\ ops[a].kind = "processVideo" /\ ops[a].phase = "Probe"
  /\ \/ ops' = [ops EXCEPT ![a].phase = "Threw", ![a].outcome = "threw"]
     \/ \E duration \in Durations :
          ops' = [ops EXCEPT ![a].phase = "Build", ![a].duration = duration]
  /\ UNCHANGED <<fs, log, batch>>

\* Lines 162-238: the command is built, the handlers registered and the
\* command started.
Build(a) ==
  /\ ops[a].kind = "processVideo" /\ ops[a].phase = "Build"
  /\ ops' = [ops EXCEPT
       ![a].phase = "Run",
       ![a].command = buildCommand(ops[a].options, ops[a].config),
       ![a].registered = registers(ops[a].hasCallback, ops[a].duration)]
  /\ UNCHANGED <<fs, log, batch>>

\* Lines 223-226: one progress event of the running command.
Progress(a) ==
  /\ ops[a].kind = "processVideo" /\ ops[a].phase = "Run"
  /\ ops[a].registered
  /\ Len(ops[a].reported) < MaxProgress
  /\ \E timemark \in Timemarks :
       ops' = [ops EXCEPT ![a].reported =
                 Append(@, progressPercent(timemark, ops[a].duration))]
  /\ UNCHANGED <<fs, log, batch>>

\* Lines 229-235: the 'end' event resolves true, the 'error' event rejects.
End(a) ==
  /\ ops[a].kind = "processVideo" /\ ops[a].phase = "Run"
  /\ \/ ops' = [ops EXCEPT ![a].phase = "Done", ![a].outcome = "true"]
     \/ ops' = [ops EXCEPT ![a].phase = "Threw", ![a].outcome = "threw"]
  /\ UNCHANGED <<fs, log, batch>>

NextTranscode ==
  \/ \E a \in DOMAIN ops : Probe(a)
  \/ \E a \in DOMAIN ops : Build(a)
  \/ \E a \in DOMAIN ops : Progress(a)
  \/ \E a \in DOMAIN ops : End(a)

SpecTranscode == InitTranscode /\ [][NextTranscode]_vars



\* ================================================= addMetadata, then verify
\* The configurations of the round trip: either camera, audio on or off,
\* the date, the coordinates and the comment given or not, and a location
\* that is absent, in the table, or inherited by every object.
RoundTripConfigs ==
  {c \in MetaConfigs :
     /\ c.hasAudio \in {Undefined, FalseV}
     /\ c.latitude \in {Undefined, "48.8584"}
     /\ (c.longitude = Undefined) = (c.latitude = Undefined)
     /\ c.longitude \in {Undefined, "2.2945"}
     /\ c.altitude = Undefined
     /\ c.locationName \in {Undefined, "tokyo", "constructor"}}

InitRoundTrip ==
  /\ fs = (VerifiedPath :> Universe[VerifiedPath])
  /\ ops = <<>>
  /\ log = <<>>
  /\ batch = IdleBatch

CallAddMetadataAny ==
  /\ NoCallYet
  /\ \E config \in RoundTripConfigs, processVideo \in BOOLEAN,
        outputPath \in {NoPath, VerifiedPath, OtherPath} :
       ops' = <<NewAddMetadata(VerifiedPath, outputPath, config, processVideo)>>
  /\ UNCHANGED <<fs, log, batch>>

\* verifyMetadata is called on the output of an addMetadata that returned
\* true.
CallVerifyOutput ==
  /\ Len(ops) = 1 /\ ops[1].kind = "addMetadata" /\ ops[1].outcome = "true"
  /\ ops' = Append(ops, NewVerify(ops[1].finalOutputPath))
  /\ UNCHANGED <<fs, log, batch>>

NextRoundTrip ==
  \/ CallAddMetadataAny
  \/ CallVerifyOutput
  \/ \E a \in DOMAIN ops : Validate(a)
  \/ \E a \in DOMAIN ops : Transcode(a)
  \/ \E a \in DOMAIN ops : Relocate(a)
  \/ \E a \in DOMAIN ops : WriteMetadata(a)
  \/ \E a \in DOMAIN ops : Cleanup(a)
  \/ \E a \in DOMAIN ops : Verify(a)

SpecRoundTrip == InitRoundTrip /\ [][NextRoundTrip]_vars


\* ================================================================ claims
\* The calls activation a has made, in the order it made them.
OpLog(a) == SelectSeq(log, LAMBDA e : e.op = a)
Adds == {a \in DOMAIN ops : ops[a].kind = "addMetadata"}
InBatch == batch.pc \in {"loop", "await", "returned"}

\* C1: in batchProcess a failing single-file operation never aborts the
\* batch: the only way the call ends without returning is a failing
\* enumeration, before any file; when it returns, every enumerated file has
\* been processed to its end, in order, and failed is exactly the number of
\* files whose operation did not return true.
C1_FailureNeverAbortsBatch ==
  /\ batch.pc = "threw" => ops = <<>>
  /\ batch.pc = "returned" =>
       /\ Len(ops) = Len(batch.videoFiles)
       /\ \A i \in DOMAIN ops :
            Finished(ops[i]) /\ ops[i].inputPath = batch.videoFiles[i].path
       /\ batch.results.failed =
            Cardinality({i \in DOMAIN ops : ops[i].outcome # "true"})

\* A returned batch in which a file failed and a later file succeeded.
C1_Witness ==
  /\ batch.pc = "returned"
  /\ \E i, j \in DOMAIN ops :
       i < j /\ ops[i].outcome = "false" /\ ops[j].outcome = "true"
  /\ batch.results.failed >= 1 /\ batch.results.success >= 1

\* The entries of the listing that are regular files with a recognized video
\* extension, compared case-insensitively.
ListedVideos ==
  {p \in batch.files : fs[p].kind = "file" /\ toLowerCase(p.ext) \in VIDEO_EXTENSIONS}

\* C2: a batch runs the single-file operation on exactly the N regular files
\* with a video extension that the directory listing holds, once each, and
\* total = N; the list is the listing made before the first file, so a file
\* that appears in the directory during the run is not processed.
C2_ExactlyTheListedVideos ==
  InBatch =>
    /\ batch.results.total = Cardinality(ListedVideos)
    /\ \A i \in DOMAIN ops : ops[i].inputPath \in ListedVideos
    /\ \A i, j \in DOMAIN ops : ops[i].inputPath = ops[j].inputPath => i = j
    /\ batch.pc = "returned" =>
         /\ {ops[i].inputPath : i \in DOMAIN ops} = ListedVideos
         /\ Len(ops) = batch.results.total

\* A returned batch over two videos and two other entries (a text file and a
\* directory named like a video), with an output created in the directory
\* during the run and not processed.
C2_Witness ==
  /\ batch.pc = "returned"
  /\ batch.results.total = 2
  /\ \E p \in batch.files : fs[p].kind = "dir"
  /\ \E p \in batch.files : fs[p].kind = "file" /\ ~isVideoFile(p)
  /\ \E p \in DOMAIN fs :
       /\ p.dir = batch.directory /\ p \notin batch.files /\ isVideoFile(p)
       /\ \A i \in DOMAIN ops : ops[i].inputPath # p


\* The place of a call in the order of addMetadata's steps.
StepRank(call) ==
  CASE call = "ffprobe" -> 1
    [] call = "ffmpeg" -> 2
    [] call = "copyFile" -> 3
    [] call = "exiftool.write" -> 4
    [] call = "unlink" -> 5
    [] OTHER -> 0

\* C3: every execution of addMetadata makes its calls in the order
\* transcode (probe, run), copy, metadata write, unlink; no call follows a
\* failed one; the transcoder and the unlink are called only when
\* transcoding was requested; the copy is made only between different
\* paths; the metadata write to the final output path comes after the
\* completed copy whenever the final output path differs from the path that
\* holds the bytes; nothing is called before the validation has passed; and
\* the execution ends Done with true or Failed with false.
C3_StepOrder ==
  \A a \in Adds :
    LET o == ops[a]
        L == OpLog(a)
    IN /\ \A k \in DOMAIN L : StepRank(L[k].call) >= 1
       /\ \A k \in 1..(Len(L) - 1) :
            StepRank(L[k].call) < StepRank(L[k + 1].call) /\ L[k].ok
       /\ (o.phase = "Validate" \/ o.failedAt = "Validate") => L = <<>>
       /\ \A k \in DOMAIN L :
            /\ L[k].call \in {"ffprobe", "ffmpeg", "unlink"} => o.processVideo
            /\ L[k].call = "copyFile" => L[k].src # L[k].dst /\ L[k].dst = o.finalOutputPath
            /\ L[k].call = "exiftool.write" =>
                 /\ L[k].dst = o.finalOutputPath
                 /\ o.finalOutputPath # o.processingPath =>
                      \E j \in 1..(k - 1) :
                        /\ L[j].call = "copyFile" /\ L[j].ok
                        /\ L[j].src = o.processingPath /\ L[j].dst = o.finalOutputPath
                 /\ o.processVideo =>
                      \E j \in 1..(k - 1) : L[j].call = "ffmpeg" /\ L[j].ok
            /\ L[k].call = "unlink" =>
                 \E j \in 1..(k - 1) : L[j].call = "exiftool.write" /\ L[j].ok
       /\ Finished(o) =>
            \/ o.phase = "Done" /\ o.outcome = "true" /\ o.failedAt = "none"
            \/ o.phase = "Failed" /\ o.outcome = "false" /\ o.failedAt # "none"
       /\ o.phase = "Done" =>
            /\ \E k \in DOMAIN L : L[k].call = "exiftool.write" /\ L[k].ok
            /\ o.processVideo => \E k \in DOMAIN L : L[k].call = "unlink"

\* An execution that went through all five steps and ended Done.
C3_Witness ==
  \E a \in Adds :
    /\ ops[a].phase = "Done" /\ ops[a].processVideo
    /\ Len(OpLog(a)) = 5
    /\ OpLog(a)[3].call = "copyFile" /\ OpLog(a)[4].call = "exiftool.write"

\* C4 (the claim as stated): whenever an addMetadata that transcoded into a
\* temporary file has finished, the removal of that temporary file has been
\* attempted.
C4_TempRemovalAttempted ==
  \A a \in Adds :
    (Finished(ops[a]) /\ ops[a].tempCreated) =>
      \E k \in DOMAIN log :
        log[k].op = a /\ log[k].call = "unlink" /\ log[k].dst = ops[a].tempOutputPath

\* C5: when the metadata write fails, addMetadata returns false and nothing
\* is rolled back: the failing step leaves the disk as it was, so an output
\* file that was copied to the final output path is still there as the copy
\* left it, without the metadata; and from then on the operation makes no
\* call and the file is not removed.
C5_WriteFailureNoRollback ==
  [][\A a \in DOMAIN ops :
       LET o == ops[a] IN
       o.kind = "addMetadata" =>
         /\ (o.phase = "WriteMetadata" /\ ops'[a].failedAt = "WriteMetadata") =>
              /\ ops'[a].phase = "Failed" /\ ops'[a].outcome = "false"
              /\ fs' = fs
              /\ (\E k \in DOMAIN log : log[k].op = a /\ log[k].call = "copyFile") =>
                   IsFile(o.finalOutputPath)
         /\ o.failedAt = "WriteMetadata" =>
              /\ ops'[a] = o
              /\ SelectSeq(log', LAMBDA e : e.op = a) = OpLog(a)
              /\ \A k \in DOMAIN log : log[k].op = a => log[k].call # "unlink"
              /\ o.finalOutputPath \in DOMAIN fs => o.finalOutputPath \in DOMAIN fs'
    ]_vars

\* A failed metadata write after a completed copy.
C5_Witness ==
  \E a \in Adds :
    /\ ops[a].failedAt = "WriteMetadata"
    /\ \E k \in DOMAIN log : log[k].op = a /\ log[k].call = "copyFile" /\ log[k].ok
    /\ IsFile(ops[a].finalOutputPath)

\* C6: addMetadata on an input whose lower-cased extension is not one of
\* .mp4 .mov .avi .mkv .m4v .webm returns false at the validation, before any
\* call of the transcoder, copy, metadata write or temporary path; with an
\* extension of the list the validation passes.
C6_ValidateExtension ==
  \A a \in Adds :
    LET o == ops[a]
        listed == toLowerCase(o.inputPath.ext) \in
                    {".mp4", ".mov", ".avi", ".mkv", ".m4v", ".webm"}
    IN o.phase # "Validate" =>
         /\ ~listed =>
              /\ o.phase = "Failed" /\ o.outcome = "false" /\ o.failedAt = "Validate"
              /\ OpLog(a) = <<>>
              /\ o.tempOutputPath = NoPath /\ ~o.tempCreated
         /\ listed => o.failedAt # "Validate"

\* A rejected .txt input, with nothing called.
C6_Witness ==
  \E a \in Adds :
    /\ ops[a].inputPath.ext = ".txt" /\ ops[a].failedAt = "Validate"
    /\ ops[a].processVideo /\ log = <<>>

\* The calls that write to their dst.
Writes(e) == e.call \in {"ffmpeg", "copyFile", "exiftool.write"}

\* C7 (the claim as stated): the temporary path differs from the input path
\* and from the final output path, and no call of addMetadata writes to the
\* input path, whatever the input and output paths are.
C7_InputNeverWritten ==
  \A a \in Adds :
    LET o == ops[a] IN
    /\ o.tempOutputPath # NoPath =>
         o.tempOutputPath # o.inputPath /\ o.tempOutputPath # o.finalOutputPath
    /\ \A k \in DOMAIN log :
         (log[k].op = a /\ Writes(log[k])) => log[k].dst # o.inputPath

\* C7 (amended): the transcoder writes to a temporary path that differs from
\* the input path, and from the final output path when that is the default
\* one; the copy and the metadata write go to the final output path only; so
\* the input file is written to only when the explicit output path is the
\* input path.
C7_InputWrittenOnlyInPlace ==
  \A a \in Adds :
    LET o == ops[a] IN
    /\ o.tempOutputPath # NoPath =>
         /\ o.tempOutputPath # o.inputPath
         /\ o.outputPath = NoPath => o.tempOutputPath # o.finalOutputPath
    /\ \A k \in DOMAIN log :
         (log[k].op = a /\ Writes(log[k])) =>
           /\ log[k].call = "ffmpeg" =>
                log[k].dst = o.tempOutputPath /\ log[k].dst # o.inputPath
           /\ log[k].call # "ffmpeg" => log[k].dst = o.finalOutputPath
           /\ o.outputPath # o.inputPath => log[k].dst # o.inputPath

\* A transcoding execution with the default output path that ran to its end.
C7_Witness ==
  \E a \in Adds :
    /\ ops[a].processVideo /\ ops[a].outputPath = NoPath /\ ops[a].phase = "Done"
    /\ \E k \in DOMAIN log : log[k].op = a /\ log[k].call = "ffmpeg" /\ log[k].ok
    /\ \E k \in DOMAIN log : log[k].op = a /\ log[k].call = "copyFile" /\ log[k].ok

\* C8: a failing removal of the temporary file does not change the result:
\* addMetadata returns true.
C8_CleanupFailureSwallowed ==
  \A k \in DOMAIN log :
    (log[k].call = "unlink" /\ ~log[k].ok) =>
      /\ ops[log[k].op].phase = "Done"
      /\ ops[log[k].op].outcome = "true"

\* A failed unlink after a successful transcode, copy and metadata write.
C8_Witness ==
  \E a \in Adds :
    /\ Len(OpLog(a)) = 5
    /\ \A k \in 1..4 : OpLog(a)[k].ok
    /\ OpLog(a)[5].call = "unlink" /\ ~OpLog(a)[5].ok
    /\ ops[a].tempOutputPath \in DOMAIN fs

\* C9: a batch is sequential: at most one file's operation is in progress,
\* the operation of a file starts only after those of all earlier files have
\* ended, and the operation of the i-th file is made of that file, the output
\* directory and the configuration of the call alone.
C9_BatchSequential ==
  InBatch =>
    /\ Cardinality({a \in DOMAIN ops : ~Finished(ops[a])}) <= 1
    /\ \A a \in DOMAIN ops : a < Len(ops) => Finished(ops[a])
    /\ Len(ops) <= Len(batch.videoFiles)
    /\ \A a \in DOMAIN ops :
         /\ ops[a].kind = "addMetadata"
         /\ ops[a].inputPath = batch.videoFiles[a].path
         /\ ops[a].outputPath = batchOutputPath(batch.outputDir, batch.videoFiles[a])
         /\ ops[a].config = batch.config
    /\ batch.results.success + batch.results.failed = batch.idx - 1

\* The second file's operation in progress after the first has ended.
C9_Witness ==
  /\ batch.pc = "await" /\ Len(ops) = 2
  /\ Finished(ops[1]) /\ ops[2].phase = "WriteMetadata"

\* C10 (the claim as stated): no single-file operation of VideoProcessor
\* ends by raising; each resolves to a result.
C10_NoOperationRaises ==
  \A a \in DOMAIN ops : ops[a].outcome # "threw"

\* C11: a merge given fewer than two input paths calls neither ffmpeg nor
\* exiftool nor the filesystem at any time, leaves the disk as it was, and
\* VideoProcessor.mergeVideos returns false (the thrown error is caught).
C11_MergeNeedsTwoInputs ==
  \A a \in DOMAIN ops :
    (ops[a].kind = "mergeVideos" /\ Len(ops[a].inputPaths) < 2) =>
      /\ OpLog(a) = <<>>
      /\ ~Exists(ops[a].outputPath)
      /\ ops[a].phase \in {"Merge", "Failed"}
      /\ Finished(ops[a]) =>
            ops[a].outcome = "false" /\ ops[a].failedAt = "Merge"

\* A merge of a single existing file has returned false.
C11_Witness ==
  \E a \in DOMAIN ops :
    /\ ops[a].kind = "mergeVideos" /\ Len(ops[a].inputPaths) = 1
    /\ IsFile(ops[a].inputPaths[1])
    /\ ops[a].phase = "Failed" /\ ops[a].outcome = "false"
    /\ log = <<>>

\* The activations of verifyMetadata and the tags of the file they read.
Verifies == {a \in DOMAIN ops : ops[a].kind = "verifyMetadata"}
ReadFailed(a) ==
  \E i \in DOMAIN log :
    log[i].op = a /\ log[i].call = "exiftool.read" /\ ~log[i].ok
ReadTags(a) == fs[ops[a].inputPath].tags

\* C12: verifyMetadata never raises, and whenever reading the tags fails it
\* returns false.
C12_VerifyReadFailureIsFalse ==
  \A a \in Verifies :
    /\ ops[a].phase # "Threw"
    /\ ReadFailed(a) => ops[a].phase = "Failed" /\ ops[a].outcome = "false"

\* The read of an existing file has failed and the call returned false.
C12_Witness ==
  \E a \in Verifies :
    /\ IsFile(ops[a].inputPath) /\ ReadFailed(a)
    /\ ops[a].outcome = "false" /\ ops[a].failedAt = "exiftool.read"

\* The required tag of the file read by a is present and not empty.
Present(a, tag) == ReadTags(a)[tag] \notin {Undefined, ""}
FourTags == {"Make", "Model", "Software", "LensModel"}

\* C13: verifyMetadata returns true only if Make, Model, Software and
\* LensModel are all present; if any of them is absent or empty it returns
\* false, whatever the others hold.
C13_VerifyNeedsAllFourTags ==
  \A a \in Verifies :
    /\ ops[a].outcome = "true" =>
         Exists(ops[a].inputPath) /\ \A tag \in FourTags : Present(a, tag)
    /\ (Finished(ops[a]) /\ Exists(ops[a].inputPath)
          /\ \E tag \in FourTags : ~Present(a, tag)) =>
         ops[a].outcome = "false"

\* Three tags carry a marker, the lens model alone is absent, and the call
\* has returned false after a successful read.
C13_Witness ==
  \E a \in Verifies :
    /\ IsFile(ops[a].inputPath) /\ ~ReadFailed(a)
    /\ ReadTags(a).Make = "Meta" /\ ReadTags(a).Model = "Ray-Ban Stories"
    /\ ReadTags(a).Software = "Meta Ray-Ban Stories"
    /\ ReadTags(a).LensModel = Undefined
    /\ ops[a].outcome = "false"

\* The text of a tag holds the marker; an absent tag holds none.
Contains(v, marker) ==
  v # Undefined /\
  \E i \in 1..Len(v) : \E j \in i..Len(v) : SubSeq(v, i, j) = marker

\* C14 as stated: the result equals "(all four tags are truthy and contain
\* 'Ray-Ban') or (LensModel contains 'Meta')".
C14_ReducedPredicate ==
  \A a \in Verifies :
    (Finished(ops[a]) /\ IsFile(ops[a].inputPath) /\ ~ReadFailed(a)) =>
      (ops[a].outcome = "true" <=>
         \/ \A tag \in FourTags :
              Present(a, tag) /\ Contains(ReadTags(a)[tag], "Ray-Ban")
         \/ Contains(ReadTags(a).LensModel, "Meta"))

\* C14, amended: after a successful read the result is true exactly when
\* each of the four tags, taken by itself, is present and contains 'Ray-Ban'
\* or 'Meta'.
C14_EveryTagHasAMarker ==
  \A a \in Verifies :
    (Finished(ops[a]) /\ IsFile(ops[a].inputPath) /\ ~ReadFailed(a)) =>
      (ops[a].outcome = "true" <=>
         \A tag \in FourTags :
           \/ Contains(ReadTags(a)[tag], "Ray-Ban")
           \/ Contains(ReadTags(a)[tag], "Meta"))

\* Make and Software hold only 'Meta', Model and LensModel only 'Ray-Ban'
\* (as in the tags of the camera presets), and the call has returned true.
C14_Witness ==
  \E a \in Verifies :
    /\ IsFile(ops[a].inputPath) /\ ~ReadFailed(a)
    /\ ReadTags(a).Make = "Meta" /\ ReadTags(a).Model = "Ray-Ban Stories"
    /\ ReadTags(a).Software = "Meta"
    /\ ReadTags(a).LensModel = "Ray-Ban Stories"
    /\ ops[a].outcome = "true"

\* The returned calls of generateMetadata, and what the claims compare.
Metas == {a \in DOMAIN ops : ops[a].kind = "generateMetadata" /\ ops[a].phase = "Done"}
Supplied(v) == v \notin {Undefined, ""}
BothCoordinates(c) == Supplied(c.latitude) /\ Supplied(c.longitude)
Gps(m) == <<m.gpsLatitude, m.gpsLongitude, m.gpsAltitude>>
PresetNames == {"new-york", "san-francisco", "london", "tokyo", "paris", "default"}
PresetGps(name) ==
  CASE name = "new-york" -> <<"40.7128", "-74.0060", "10">>
    [] name = "san-francisco" -> <<"37.7749", "-122.4194", "5">>
    [] name = "london" -> <<"51.5074", "-0.1278", "15">>
    [] name = "tokyo" -> <<"35.6762", "139.6503", "20">>
    [] name = "paris" -> <<"48.8566", "2.3522", "35">>
    [] name = "default" -> <<"37.7749", "-122.4194", "5">>
CameraDefaultGps(c) ==
  IF c.frontCamera = TrueV THEN PresetGps("new-york") ELSE PresetGps("san-francisco")

\* C15: the location is resolved with a fixed precedence: latitude and
\* longitude, when both are supplied, are used verbatim whatever location is
\* named; otherwise a named location that is in the preset table is used;
\* otherwise (no name, or a name the table does not have) the camera default
\* is.  One coordinate alone counts as none.
C15_LocationPrecedence ==
  \A a \in Metas :
    LET c == ops[a].config
        m == ops[a].metadata
    IN /\ BothCoordinates(c) =>
            m.gpsLatitude = c.latitude /\ m.gpsLongitude = c.longitude
       /\ (~BothCoordinates(c) /\ c.locationName \in PresetNames) =>
            Gps(m) = PresetGps(c.locationName)
       /\ (~BothCoordinates(c) /\ c.locationName \notin PresetNames) =>
            Gps(m) = CameraDefaultGps(c)

\* C16 as stated: for every configuration that names a location of the
\* table, the resolved latitude, longitude and altitude are that preset's.
C16_NamedPresetAlways ==
  \A a \in Metas :
    ops[a].config.locationName \in PresetNames =>
      Gps(ops[a].metadata) = PresetGps(ops[a].config.locationName)

\* C16, amended: for every configuration that names a location of the table
\* and does not supply both a latitude and a longitude, for either camera,
\* the resolved latitude, longitude and altitude are that preset's.
C16_NamedPresetWithoutCoordinates ==
  \A a \in Metas :
    LET c == ops[a].config IN
    (c.locationName \in PresetNames /\ ~BothCoordinates(c)) =>
      Gps(ops[a].metadata) = PresetGps(c.locationName)

\* The front camera, tokyo named, a latitude without a longitude: tokyo's
\* coordinates are returned.
C16_Witness ==
  \E a \in Metas :
    LET c == ops[a].config IN
    /\ c.locationName = "tokyo" /\ c.frontCamera = TrueV
    /\ Supplied(c.latitude) /\ c.longitude = Undefined
    /\ Gps(ops[a].metadata) = <<"35.6762", "139.6503", "20">>

\* C17: with no explicit coordinates and a location name that is absent or
\* is any string that is not a key of the table, the resolved location is
\* the camera default and the three GPS fields are defined strings.
C17_UnknownNameFallsBack ==
  \A a \in Metas :
    LET c == ops[a].config
        m == ops[a].metadata
    IN (~BothCoordinates(c) /\ c.locationName \notin PresetNames) =>
         /\ Gps(m) = CameraDefaultGps(c)
         /\ \A i \in 1..3 : Gps(m)[i] # Undefined

\* C18: with latitude and longitude both supplied, the altitude is the one
\* supplied, verbatim, and '5' when none is, whatever the camera and
\* whatever location is named.
C18_AltitudeDefault ==
  \A a \in Metas :
    LET c == ops[a].config IN
    BothCoordinates(c) =>
      ops[a].metadata.gpsAltitude =
        IF Supplied(c.altitude) THEN c.altitude ELSE "5"

\* The front camera (default altitude 10) with tokyo (altitude 20) named and
\* coordinates without an altitude: the altitude is '5'.
C18_Witness ==
  \E a \in Metas :
    LET c == ops[a].config IN
    /\ BothCoordinates(c) /\ c.altitude = Undefined
    /\ c.frontCamera = TrueV /\ c.locationName = "tokyo"
    /\ ops[a].metadata.gpsAltitude = "5"

\* C19: with hasAudio false the record has 0 audio channels and the
\* microphone "None", whatever else is configured; with hasAudio true or
\* absent they are the camera preset's (2 and the beamforming array in
\* front, 4 and the five-microphone array otherwise).
C19_AudioFields ==
  \A a \in Metas :
    LET c == ops[a].config
        m == ops[a].metadata
    IN IF c.hasAudio = FalseV
         THEN m.audioChannels = 0 /\ m.microphone = "None"
       ELSE IF c.frontCamera = TrueV
         THEN m.audioChannels = 2 /\ m.microphone = "Beamforming Array"
       ELSE /\ m.audioChannels = 4
            /\ m.microphone = "5-microphone array with noise cancellation"

\* The front camera with coordinates, a comment and a date of the caller's,
\* and audio off: no channel and no microphone.
C19_Witness ==
  \E a \in Metas :
    LET c == ops[a].config IN
    /\ c.hasAudio = FalseV /\ c.frontCamera = TrueV
    /\ BothCoordinates(c) /\ Supplied(c.customComment) /\ c.customDate # <<>>
    /\ ops[a].metadata.audioChannels = 0 /\ ops[a].metadata.microphone = "None"

\* The text of a date has the shape YYYY:MM:DD HH:MM:SS.
ColonDate(d) ==
  /\ Len(d) = 11
  /\ d[2] = ":" /\ d[4] = ":" /\ d[6] = " " /\ d[8] = ":" /\ d[10] = ":"
  /\ Len(d[1]) = 4
  /\ \A i \in {3, 5, 7, 9, 11} : Len(d[i]) = 2

\* C20: without a custom date the current time is formatted as
\* YYYY:MM:DD HH:MM:SS, the date part being separated by colons; the
\* creation and modification dates are the same, and with a custom date both
\* are that date verbatim.
C20_DateFormat ==
  \A a \in Metas :
    LET c == ops[a].config
        m == ops[a].metadata
    IN /\ m.createDate = m.modifyDate
       /\ c.customDate # <<>> => m.createDate = c.customDate
       /\ c.customDate = <<>> => ColonDate(m.createDate)

\* The calls of processVideo whose command has been built.
Built == {a \in DOMAIN ops : ops[a].kind = "processVideo" /\ ops[a].phase \in {"Run", "Done"}}
\* The value the caller supplied for an option, <<>> when none was.
SuppliedOption(o, key) == IF key \in DOMAIN o.options THEN o.options[key] ELSE <<>>
ProfileValue(o, key) ==
  IF o.config.frontCamera = TrueV
    THEN (CASE key = "resolution" -> <<"1184x1184">>
            [] key = "fps" -> <<"30">>
            [] key = "bitrate" -> <<"4000k">>)
    ELSE (CASE key = "resolution" -> <<"1920x1080">>
            [] key = "fps" -> <<"60">>
            [] key = "bitrate" -> <<"8000k">>)
TierPreset(o) ==
  IF SuppliedOption(o, "quality") = <<"high">> THEN "slow" ELSE "medium"
OrElse(supplied, fallback) == IF supplied # <<>> THEN supplied ELSE fallback

\* C21: the command processVideo builds takes each of resolution, frame
\* rate, bitrate and encoder preset from the options when the option is
\* supplied, and otherwise from the device profile of the camera (front:
\* 1184x1184, 30, 4000k; main: 1920x1080, 60, 8000k) or, for the encoder
\* preset, from the quality tier, which is 'medium' when none is given.
C21_OptionPrecedence ==
  \A a \in Built :
    LET o == ops[a]
        c == o.command
    IN /\ c.size = OrElse(SuppliedOption(o, "resolution"), ProfileValue(o, "resolution"))
       /\ c.fps = OrElse(SuppliedOption(o, "fps"), ProfileValue(o, "fps"))
       /\ c.videoBitrate = OrElse(SuppliedOption(o, "bitrate"), ProfileValue(o, "bitrate"))
       /\ <<c.preset>> = OrElse(SuppliedOption(o, "preset"), <<TierPreset(o)>>)
       /\ c.crf = IF SuppliedOption(o, "quality") = <<"high">> THEN 18 ELSE 23

C23_ProbeBeforeTranscoder ==
  \A i \in DOMAIN log :
    log[i].call \in {"ffmpeg", "ffprobe"} =>
      \E j \in 1..(i - 1) : log[j].call = "getAvailableFormats"

\* The text of a file name given as tokens.
RECURSIVE Text(_)
Text(name) == IF name = <<>> THEN "" ELSE Head(name) \o Text(Tail(name))
DefaultSuffix(config) ==
  IF config.frontCamera = TrueV THEN "_rayban_front" ELSE "_rayban"

\* C24: without an explicit output path the final output path is in the
\* input's directory, has the input's extension, and its name is the input's
\* base name followed by _rayban (main camera) or _rayban_front (front
\* camera); optimizeForRayBan appends _optimized after that suffix.
C24_DefaultOutputName ==
  \A a \in DOMAIN ops :
    LET o == ops[a] IN
    (o.kind \in {"addMetadata", "optimizeForRayBan"} /\ o.outputPath = NoPath
       /\ o.finalOutputPath # NoPath) =>
      /\ o.finalOutputPath.dir = o.inputPath.dir
      /\ o.finalOutputPath.ext = o.inputPath.ext
      /\ Text(o.finalOutputPath.name) =
           Text(o.inputPath.name) \o DefaultSuffix(o.config) \o
           (IF o.kind = "optimizeForRayBan" THEN "_optimized" ELSE "")

\* vids/a.mp4, main camera, no transcode: the tags were written to
\* vids/a_rayban.mp4.
C24_Witness ==
  \E a \in DOMAIN ops :
    /\ ops[a].kind = "addMetadata" /\ ops[a].outputPath = NoPath
    /\ ~ops[a].processVideo /\ ops[a].config.frontCamera = Undefined
    /\ ops[a].inputPath = MkPath("vids", <<"a">>, ".mp4")
    /\ ops[a].outcome = "true"
    /\ Text(ops[a].finalOutputPath.name) = "a_rayban"
    /\ IsFile(ops[a].finalOutputPath)
    /\ fs[ops[a].finalOutputPath].tags.Make = "Meta"

\* The counters of the batch agree with the files processed so far.
CountersAgree(b) ==
  /\ b.results.total = Len(b.videoFiles)
  /\ b.results.success + b.results.failed = b.idx - 1
  /\ b.pc = "returned" => b.results.success + b.results.failed = b.results.total

\* C25: in batchProcess, from the enumeration on, success + failed is the
\* number of files processed so far; a step either leaves the counters alone
\* or finishes one file and adds exactly one to exactly one of success and
\* failed; total never changes; on return success + failed = total.
C25_BatchCounters ==
  [][(batch.pc \in {"loop", "await", "returned"}) =>
       /\ CountersAgree(batch) /\ CountersAgree(batch')
       /\ batch'.results.total = batch.results.total
       /\ \/ batch'.results = batch.results /\ batch'.idx = batch.idx
          \/ /\ batch'.idx = batch.idx + 1
             /\ \/ /\ batch'.results.success = batch.results.success + 1
                   /\ batch'.results.failed = batch.results.failed
                \/ /\ batch'.results.failed = batch.results.failed + 1
                   /\ batch'.results.success = batch.results.success]_vars

\* A batch of two files has returned with one success and one failure.
C25_Witness ==
  /\ batch.pc = "returned"
  /\ batch.results = [success |-> 1, failed |-> 1, total |-> 2]

\* What is at path p on the disk d, "nothing" when p does not exist.
At(d, p) == IF p \in DOMAIN d THEN d[p] ELSE "nothing"

\* C26: an addMetadata without an explicit output path has a final output
\* path that differs from its input path, issues no write against its input
\* path, and from its call to its return, with or without transcoding and
\* whether it succeeds or fails, no step changes what is at the input path.
C26_DefaultOutputLeavesInput ==
  [][\A a \in DOMAIN ops :
       (ops[a].kind = "addMetadata" /\ ops[a].outputPath = NoPath) =>
         /\ ops[a].finalOutputPath # ops[a].inputPath
         /\ ops'[a].finalOutputPath # ops[a].inputPath
         /\ \A k \in DOMAIN log' :
              (log'[k].op = a /\ Writes(log'[k])) => log'[k].dst # ops[a].inputPath
         /\ ~Finished(ops[a]) => At(fs', ops[a].inputPath) = At(fs, ops[a].inputPath)]_vars

\* A transcoding addMetadata with the default output path has returned true,
\* its output carries the tags and its input is the file it was.
C26_Witness ==
  \E a \in Adds :
    /\ ops[a].outputPath = NoPath /\ ops[a].processVideo
    /\ ops[a].outcome = "true"
    /\ fs[ops[a].finalOutputPath].tags.Make = "Meta"
    /\ fs[ops[a].inputPath] = Universe[ops[a].inputPath]

\* C27: after addMetadata has returned true for an output file, with any
\* configuration, verifyMetadata on that file returns true, provided its
\* read succeeds and gives back the tags that were written.
C27_RoundTrip ==
  \A a \in Verifies :
    (/\ Finished(ops[a]) /\ ~ReadFailed(a)
     /\ \E b \in Adds : /\ ops[b].outcome = "true"
                        /\ ops[b].finalOutputPath = ops[a].inputPath) =>
      ops[a].outcome = "true"

\* The front camera with audio off, a date, coordinates and a comment of
\* the caller's: added with transcoding, then verified as true.
C27_Witness ==
  \E a \in Verifies : \E b \in Adds :
    /\ ops[b].outcome = "true" /\ ops[b].processVideo
    /\ ops[b].config.frontCamera = TrueV /\ ops[b].config.hasAudio = FalseV
    /\ ops[b].config.customDate # <<>> /\ ops[b].config.latitude # Undefined
    /\ ops[b].config.customComment # Undefined
    /\ ops[a].inputPath = ops[b].finalOutputPath
    /\ ~ReadFailed(a) /\ ops[a].outcome = "true"

Transcodings == {a \in DOMAIN ops : ops[a].kind \in {"optimizeForRayBan", "mergeVideos"}}
Made(a, calls, ok) ==
  {k \in DOMAIN log : log[k].op = a /\ log[k].call \in calls /\ log[k].ok = ok}

\* C29: in optimizeForRayBan and mergeVideos the metadata write to the
\* output path comes only after the transcoder succeeded for that path; when
\* the transcoder fails no write is attempted and the result is false; when
\* the write fails the result is false and the transcoded output stays.
C29_WriteAfterTranscode ==
  \A a \in Transcodings :
    /\ \A k \in Made(a, {"exiftool.write"}, TRUE) \cup Made(a, {"exiftool.write"}, FALSE) :
         /\ log[k].dst = ops[a].finalOutputPath
         /\ \E j \in Made(a, {"ffmpeg"}, TRUE) : j < k /\ log[j].dst = log[k].dst
    /\ Made(a, {"ffmpeg", "ffprobe"}, FALSE) # {} =>
         /\ Made(a, {"exiftool.write"}, TRUE) \cup Made(a, {"exiftool.write"}, FALSE) = {}
         /\ Finished(ops[a]) => ops[a].outcome = "false"
    /\ Made(a, {"exiftool.write"}, FALSE) # {} =>
         /\ ops[a].phase = "Failed" /\ ops[a].outcome = "false"
         /\ IsFile(ops[a].finalOutputPath)
         /\ fs[ops[a].finalOutputPath].enc \in {"x264", "merged"}
         /\ fs[ops[a].finalOutputPath].tags = NoTags

\* An optimization whose transcode succeeded and whose write failed.
C29_Witness ==
  \E a \in Transcodings :
    /\ ops[a].kind = "optimizeForRayBan"
    /\ Made(a, {"ffmpeg"}, TRUE) # {} /\ Made(a, {"exiftool.write"}, FALSE) # {}
    /\ ops[a].outcome = "false" /\ IsFile(ops[a].finalOutputPath)

\* C30: for every configuration the reference letters of the record are
\* 'N' for the latitude and 'W' for the longitude, as in both camera
\* presets, whatever the resolved coordinates are.
C30_HemisphereRefs ==
  \A a \in Metas :
    /\ ops[a].metadata.gpsLatitudeRef = "N"
    /\ ops[a].metadata.gpsLongitudeRef = "W"

\* A southern latitude with an eastern longitude given explicitly still has
\* the letters N and W.
C30_Witness ==
  \E a \in Metas :
    /\ ops[a].metadata.gpsLatitude = "-33.8688"
    /\ ops[a].metadata.gpsLongitude = "2.2945"
    /\ ops[a].metadata.gpsLatitudeRef = "N"
    /\ ops[a].metadata.gpsLongitudeRef = "W"

====
